---------------------------- MODULE Spec2Model ----------------------------
(***************************************************************************)
(* Model of alto's format layer, src/src/al/format.rs:                     *)
(*   - the Format catalog and its resolution to wire tokens (into_raw),    *)
(*   - the SampleFrame registry (len, format) of the frame structs,        *)
(*   - the AsBufferData / AsBufferDataMut views of sample slices, taken    *)
(*     directly or through containers, and the writes through them,        *)
(*   - the LoopbackFrame registry (channels, sample_ty).                   *)
(* A caller sits idle, makes one call, reads its result and returns;       *)
(* writes counts the samples it has stored through mutable views.          *)
(***************************************************************************)
EXTENDS Integers, Sequences, FiniteSets, TLC

VARIABLES ctx, mem, call, writes

vars == <<ctx, mem, call, writes>>

(***************************************************************************)
(* Bounds of the model.                                                    *)
(***************************************************************************)
\* at most this many extensions/tokens are missing from a rich provider
MaxAbsent == 1
\* at most this many extensions are present in a sparse provider
MaxPresent == 1
\* longest sample buffer, in samples
MaxLen == 17
\* largest start offset of the sample slice handed to a view operation
MaxStart == 1
\* deepest nesting of containers around a slice
MaxDepth == 2
\* most writes the caller makes through mutable views
MaxWrites == 1

(***************************************************************************)
(* Option and Result values.                                               *)
(***************************************************************************)
None == [tag |-> "None"]
Some(v) == [tag |-> "Some", val |-> v]
Ok(v) == [tag |-> "Ok", val |-> v]
Err(e) == [tag |-> "Err", err |-> e]

\* AltoError::AlExtensionNotPresent
AlExtensionNotPresent == "AlExtensionNotPresent"

\* ext::ExtensionError, the error of an ExtResult
ExtensionError == "ExtensionError"

\* impl From<ExtensionError> for AltoError, applied by the ? operator
From_ExtensionError(e) == AlExtensionNotPresent

(***************************************************************************)
(* The Format catalog: one row per variant of the per-family enums, with   *)
(* the extension and the token its doc comment names.                      *)
(***************************************************************************)
Row(family, fmt, ext, token) ==
    [family |-> family, fmt |-> fmt, ext |-> ext, token |-> token]

StandardFormats == {"MonoU8", "MonoI16", "StereoU8", "StereoI16"}

FormatCatalog ==
    { Row("ExtALaw", "Mono", "AL_EXT_ALAW", "AL_FORMAT_MONO_ALAW_EXT"),
      Row("ExtALaw", "Stereo", "AL_EXT_ALAW", "AL_FORMAT_STEREO_ALAW_EXT"),
      Row("ExtBFormat", "B2DU8", "AL_EXT_BFORMAT", "AL_FORMAT_BFORMAT2D_8"),
      Row("ExtBFormat", "B2DI16", "AL_EXT_BFORMAT", "AL_FORMAT_BFORMAT2D_16"),
      Row("ExtBFormat", "B2DF32", "AL_EXT_BFORMAT", "AL_FORMAT_BFORMAT2D_FLOAT32"),
      Row("ExtBFormat", "B3DU8", "AL_EXT_BFORMAT", "AL_FORMAT_BFORMAT3D_8"),
      Row("ExtBFormat", "B3DI16", "AL_EXT_BFORMAT", "AL_FORMAT_BFORMAT3D_16"),
      Row("ExtBFormat", "B3DF32", "AL_EXT_BFORMAT", "AL_FORMAT_BFORMAT3D_FLOAT32"),
      Row("ExtDouble", "Mono", "AL_EXT_double", "AL_FORMAT_MONO_DOUBLE_EXT"),
      Row("ExtDouble", "Stereo", "AL_EXT_double", "AL_FORMAT_STEREO_DOUBLE_EXT"),
      Row("ExtFloat32", "Mono", "AL_EXT_float32", "AL_FORMAT_MONO_FLOAT32"),
      Row("ExtFloat32", "Stereo", "AL_EXT_float32", "AL_FORMAT_STEREO_FLOAT32"),
      Row("ExtIma4", "Mono", "AL_EXT_IMA4", "AL_FORMAT_MONO_IMA4"),
      Row("ExtIma4", "Stereo", "AL_EXT_IMA4", "AL_FORMAT_STEREO_IMA4"),
      Row("ExtMcFormats", "QuadU8", "AL_EXT_MCFORMATS", "AL_FORMAT_QUAD8"),
      Row("ExtMcFormats", "QuadI16", "AL_EXT_MCFORMATS", "AL_FORMAT_QUAD16"),
      Row("ExtMcFormats", "QuadF32", "AL_EXT_MCFORMATS", "AL_FORMAT_QUAD32"),
      Row("ExtMcFormats", "RearU8", "AL_EXT_MCFORMATS", "AL_FORMAT_REAR8"),
      Row("ExtMcFormats", "RearI16", "AL_EXT_MCFORMATS", "AL_FORMAT_REAR16"),
      Row("ExtMcFormats", "RearF32", "AL_EXT_MCFORMATS", "AL_FORMAT_REAR32"),
      Row("ExtMcFormats", "Mc51ChnU8", "AL_EXT_MCFORMATS", "AL_FORMAT_51CHN8"),
      Row("ExtMcFormats", "Mc51ChnI16", "AL_EXT_MCFORMATS", "AL_FORMAT_51CHN16"),
      Row("ExtMcFormats", "Mc51ChnF32", "AL_EXT_MCFORMATS", "AL_FORMAT_51CHN32"),
      Row("ExtMcFormats", "Mc61ChnU8", "AL_EXT_MCFORMATS", "AL_FORMAT_61CHN8"),
      Row("ExtMcFormats", "Mc61ChnI16", "AL_EXT_MCFORMATS", "AL_FORMAT_61CHN16"),
      Row("ExtMcFormats", "Mc61ChnF32", "AL_EXT_MCFORMATS", "AL_FORMAT_61CHN32"),
      Row("ExtMcFormats", "Mc71ChnU8", "AL_EXT_MCFORMATS", "AL_FORMAT_71CHN8"),
      Row("ExtMcFormats", "Mc71ChnI16", "AL_EXT_MCFORMATS", "AL_FORMAT_71CHN16"),
      Row("ExtMcFormats", "Mc71ChnF32", "AL_EXT_MCFORMATS", "AL_FORMAT_71CHN32"),
      Row("ExtMuLaw", "Mono", "AL_EXT_MULAW", "AL_FORMAT_MONO_MULAW_EXT"),
      Row("ExtMuLaw", "Stereo", "AL_EXT_MULAW", "AL_FORMAT_STEREO_MULAW_EXT"),
      Row("ExtMuLawBFormat", "B2D", "AL_EXT_MULAW_BFORMAT", "AL_FORMAT_BFORMAT2D_MULAW"),
      Row("ExtMuLawBFormat", "B3D", "AL_EXT_MULAW_BFORMAT", "AL_FORMAT_BFORMAT3D_MULAW"),
      Row("ExtMuLawMcFormats", "Mono", "AL_EXT_MULAW_MCFORMATS", "AL_FORMAT_MONO_MULAW"),
      Row("ExtMuLawMcFormats", "Stereo", "AL_EXT_MULAW_MCFORMATS", "AL_FORMAT_STEREO_MULAW"),
      Row("ExtMuLawMcFormats", "Quad", "AL_EXT_MULAW_MCFORMATS", "AL_FORMAT_QUAD_MULAW"),
      Row("ExtMuLawMcFormats", "Rear", "AL_EXT_MULAW_MCFORMATS", "AL_FORMAT_REAR_MULAW"),
      Row("ExtMuLawMcFormats", "Mc51Chn", "AL_EXT_MULAW_MCFORMATS", "AL_FORMAT_51CHN_MULAW"),
      Row("ExtMuLawMcFormats", "Mc61Chn", "AL_EXT_MULAW_MCFORMATS", "AL_FORMAT_61CHN_MULAW"),
      Row("ExtMuLawMcFormats", "Mc71Chn", "AL_EXT_MULAW_MCFORMATS", "AL_FORMAT_71CHN_MULAW"),
      Row("SoftMsadpcm", "Mono", "AL_SOFT_MSADPCM", "AL_FORMAT_MONO_MSADPCM_SOFT"),
      Row("SoftMsadpcm", "Stereo", "AL_SOFT_MSADPCM", "AL_FORMAT_STEREO_MSADPCM_SOFT") }

\* a value of enum Format: the variant and the inner enum's variant
Fmt(family, fmt) == [family |-> family, fmt |-> fmt]

ExtensionFamilies == {r.family : r \in FormatCatalog}

ExtensionFormats == {Fmt(r.family, r.fmt) : r \in FormatCatalog}

Formats == {Fmt("Standard", x) : x \in StandardFormats} \cup ExtensionFormats

CatalogRow(f) == CHOOSE r \in FormatCatalog : r.family = f.family /\ r.fmt = f.fmt

(***************************************************************************)
(* The capability provider (Context::extensions()): per extension either   *)
(* an error or a struct of token fields, each an error or an integer.      *)
(***************************************************************************)
Extensions == {r.ext : r \in FormatCatalog}

ExtensionTokens(e) == {r.token : r \in {q \in FormatCatalog : q.ext = e}}

Tokens == {r.token : r \in FormatCatalog}

TokenOrder ==
    << "AL_FORMAT_MONO_ALAW_EXT", "AL_FORMAT_STEREO_ALAW_EXT",
       "AL_FORMAT_BFORMAT2D_8", "AL_FORMAT_BFORMAT2D_16", "AL_FORMAT_BFORMAT2D_FLOAT32",
       "AL_FORMAT_BFORMAT3D_8", "AL_FORMAT_BFORMAT3D_16", "AL_FORMAT_BFORMAT3D_FLOAT32",
       "AL_FORMAT_MONO_DOUBLE_EXT", "AL_FORMAT_STEREO_DOUBLE_EXT",
       "AL_FORMAT_MONO_FLOAT32", "AL_FORMAT_STEREO_FLOAT32",
       "AL_FORMAT_MONO_IMA4", "AL_FORMAT_STEREO_IMA4",
       "AL_FORMAT_QUAD8", "AL_FORMAT_QUAD16", "AL_FORMAT_QUAD32",
       "AL_FORMAT_REAR8", "AL_FORMAT_REAR16", "AL_FORMAT_REAR32",
       "AL_FORMAT_51CHN8", "AL_FORMAT_51CHN16", "AL_FORMAT_51CHN32",
       "AL_FORMAT_61CHN8", "AL_FORMAT_61CHN16", "AL_FORMAT_61CHN32",
       "AL_FORMAT_71CHN8", "AL_FORMAT_71CHN16", "AL_FORMAT_71CHN32",
       "AL_FORMAT_MONO_MULAW_EXT", "AL_FORMAT_STEREO_MULAW_EXT",
       "AL_FORMAT_BFORMAT2D_MULAW", "AL_FORMAT_BFORMAT3D_MULAW",
       "AL_FORMAT_MONO_MULAW", "AL_FORMAT_STEREO_MULAW", "AL_FORMAT_QUAD_MULAW",
       "AL_FORMAT_REAR_MULAW", "AL_FORMAT_51CHN_MULAW", "AL_FORMAT_61CHN_MULAW",
       "AL_FORMAT_71CHN_MULAW",
       "AL_FORMAT_MONO_MSADPCM_SOFT", "AL_FORMAT_STEREO_MSADPCM_SOFT" >>

TokenIndex(t) == CHOOSE i \in 1..Len(TokenOrder) : TokenOrder[i] = t

\* the value a provider with enum base b reports for token t
TokenBases == {65536, 131072}

MkProvider(absent, b) ==
    [e \in Extensions |->
        IF e \in absent
        THEN Err(ExtensionError)
        ELSE Ok([t \in ExtensionTokens(e) |->
                    IF t \in absent THEN Err(ExtensionError)
                    ELSE Ok(b + TokenIndex(t))])]

RECURSIVE SubsetsUpTo(_, _)
SubsetsUpTo(S, k) ==
    IF k = 0 THEN {{}}
    ELSE LET P == SubsetsUpTo(S, k - 1)
         IN  P \cup {p \cup {x} : p \in P, x \in S}

\* what a provider lacks: a few extensions or tokens of a rich provider, or
\* every extension but a few of a sparse one
AbsentSets ==
    SubsetsUpTo(Extensions \cup Tokens, MaxAbsent)
    \cup {Extensions \ p : p \in SubsetsUpTo(Extensions, MaxPresent)}

Providers == {MkProvider(a, b) : a \in AbsentSets, b \in TokenBases}

\* ctx.extensions().EXT()
extension(c, e) == c[e]

(***************************************************************************)
(* Resolution of a format to its wire token.                               *)
(***************************************************************************)
\* sys::AL_FORMAT_* of the base specification (values of OpenAL's al.h)
AL_FORMAT_MONO8 == 4352
AL_FORMAT_MONO16 == 4353
AL_FORMAT_STEREO8 == 4354
AL_FORMAT_STEREO16 == 4355

\* Ok(ctx.extensions().EXT()?.TOKEN?)
Lookup(c, e, t) ==
    LET x == extension(c, e)
    IN  IF x.tag = "Err" THEN Err(From_ExtensionError(x.err))
        ELSE LET v == x.val[t]
             IN  IF v.tag = "Err" THEN Err(From_ExtensionError(v.err))
                 ELSE Ok(v.val)

\* the provider is taken by the first resolution: the next one finds none
ok_or_Taken(c, e) ==
    IF c.tag = "None" \/ (call.op = "into_raw" /\ call.ctx.tag = "Some")
    THEN Err(e)
    ELSE Ok(c.val)

\* ctx.ok_or(AltoError::AlExtensionNotPresent)
ok_or(c, e) == IF c.tag = "None" THEN Err(e) ELSE Ok(c.val)

\* MonoI16 answers with the 8-bit token
StandardFormat_into_raw_WrongToken(self) ==
    CASE self = "MonoU8" -> AL_FORMAT_MONO8
      [] self = "MonoI16" -> AL_FORMAT_MONO8
      [] self = "StereoU8" -> AL_FORMAT_STEREO8
      [] self = "StereoI16" -> AL_FORMAT_STEREO16

StandardFormat_into_raw(self) ==
    CASE self = "MonoU8" -> AL_FORMAT_MONO8
      [] self = "MonoI16" -> AL_FORMAT_MONO16
      [] self = "StereoU8" -> AL_FORMAT_STEREO8
      [] self = "StereoI16" -> AL_FORMAT_STEREO16

ExtALawFormat_into_raw(self, c) ==
    LET r == ok_or(c, AlExtensionNotPresent)
    IN  IF r.tag = "Err" THEN r
        ELSE CASE self = "Mono" -> Lookup(r.val, "AL_EXT_ALAW", "AL_FORMAT_MONO_ALAW_EXT")
               [] self = "Stereo" -> Lookup(r.val, "AL_EXT_ALAW", "AL_FORMAT_STEREO_ALAW_EXT")

ExtBFormat_into_raw(self, c) ==
    LET r == ok_or(c, AlExtensionNotPresent)
    IN  IF r.tag = "Err" THEN r
        ELSE CASE self = "B2DU8" -> Lookup(r.val, "AL_EXT_BFORMAT", "AL_FORMAT_BFORMAT2D_8")
               [] self = "B2DI16" -> Lookup(r.val, "AL_EXT_BFORMAT", "AL_FORMAT_BFORMAT2D_16")
               [] self = "B2DF32" -> Lookup(r.val, "AL_EXT_BFORMAT", "AL_FORMAT_BFORMAT2D_FLOAT32")
               [] self = "B3DU8" -> Lookup(r.val, "AL_EXT_BFORMAT", "AL_FORMAT_BFORMAT3D_8")
               [] self = "B3DI16" -> Lookup(r.val, "AL_EXT_BFORMAT", "AL_FORMAT_BFORMAT3D_16")
               [] self = "B3DF32" -> Lookup(r.val, "AL_EXT_BFORMAT", "AL_FORMAT_BFORMAT3D_FLOAT32")

ExtDoubleFormat_into_raw(self, c) ==
    LET r == ok_or(c, AlExtensionNotPresent)
    IN  IF r.tag = "Err" THEN r
        ELSE CASE self = "Mono" -> Lookup(r.val, "AL_EXT_double", "AL_FORMAT_MONO_DOUBLE_EXT")
               [] self = "Stereo" -> Lookup(r.val, "AL_EXT_double", "AL_FORMAT_STEREO_DOUBLE_EXT")

\* Mono unwraps its token with a default instead of propagating its absence
ExtFloat32Format_into_raw_Unwrap(self, c) ==
    LET r == ok_or(c, AlExtensionNotPresent)
    IN  IF r.tag = "Err" THEN r
        ELSE CASE self = "Mono" ->
                    LET x == Lookup(r.val, "AL_EXT_float32", "AL_FORMAT_MONO_FLOAT32")
                        e == extension(r.val, "AL_EXT_float32")
                    IN  IF e.tag = "Ok" /\ x.tag = "Err" THEN Ok(0) ELSE x
               [] self = "Stereo" -> Lookup(r.val, "AL_EXT_float32", "AL_FORMAT_STEREO_FLOAT32")

\* Mono reads the Stereo field
ExtFloat32Format_into_raw_Stereo(self, c) ==
    LET r == ok_or(c, AlExtensionNotPresent)
    IN  IF r.tag = "Err" THEN r
        ELSE CASE self = "Mono" -> Lookup(r.val, "AL_EXT_float32", "AL_FORMAT_STEREO_FLOAT32")
               [] self = "Stereo" -> Lookup(r.val, "AL_EXT_float32", "AL_FORMAT_STEREO_FLOAT32")

ExtFloat32Format_into_raw(self, c) ==
    LET r == ok_or(c, AlExtensionNotPresent)
    IN  IF r.tag = "Err" THEN r
        ELSE CASE self = "Mono" -> Lookup(r.val, "AL_EXT_float32", "AL_FORMAT_MONO_FLOAT32")
               [] self = "Stereo" -> Lookup(r.val, "AL_EXT_float32", "AL_FORMAT_STEREO_FLOAT32")

\* a missing context is answered with a fixed token, as for a standard format
ExtIma4Format_into_raw_NoCtx(self, c) ==
    IF c.tag = "None" THEN Ok(AL_FORMAT_MONO8)
    ELSE CASE self = "Mono" -> Lookup(c.val, "AL_EXT_IMA4", "AL_FORMAT_MONO_IMA4")
           [] self = "Stereo" -> Lookup(c.val, "AL_EXT_IMA4", "AL_FORMAT_STEREO_IMA4")

ExtIma4Format_into_raw(self, c) ==
    LET r == ok_or(c, AlExtensionNotPresent)
    IN  IF r.tag = "Err" THEN r
        ELSE CASE self = "Mono" -> Lookup(r.val, "AL_EXT_IMA4", "AL_FORMAT_MONO_IMA4")
               [] self = "Stereo" -> Lookup(r.val, "AL_EXT_IMA4", "AL_FORMAT_STEREO_IMA4")

ExtMcFormat_into_raw(self, c) ==
    LET r == ok_or(c, AlExtensionNotPresent)
    IN  IF r.tag = "Err" THEN r
        ELSE CASE self = "QuadU8" -> Lookup(r.val, "AL_EXT_MCFORMATS", "AL_FORMAT_QUAD8")
               [] self = "QuadI16" -> Lookup(r.val, "AL_EXT_MCFORMATS", "AL_FORMAT_QUAD16")
               [] self = "QuadF32" -> Lookup(r.val, "AL_EXT_MCFORMATS", "AL_FORMAT_QUAD32")
               [] self = "RearU8" -> Lookup(r.val, "AL_EXT_MCFORMATS", "AL_FORMAT_REAR8")
               [] self = "RearI16" -> Lookup(r.val, "AL_EXT_MCFORMATS", "AL_FORMAT_REAR16")
               [] self = "RearF32" -> Lookup(r.val, "AL_EXT_MCFORMATS", "AL_FORMAT_REAR32")
               [] self = "Mc51ChnU8" -> Lookup(r.val, "AL_EXT_MCFORMATS", "AL_FORMAT_51CHN8")
               [] self = "Mc51ChnI16" -> Lookup(r.val, "AL_EXT_MCFORMATS", "AL_FORMAT_51CHN16")
               [] self = "Mc51ChnF32" -> Lookup(r.val, "AL_EXT_MCFORMATS", "AL_FORMAT_51CHN32")
               [] self = "Mc61ChnU8" -> Lookup(r.val, "AL_EXT_MCFORMATS", "AL_FORMAT_61CHN8")
               [] self = "Mc61ChnI16" -> Lookup(r.val, "AL_EXT_MCFORMATS", "AL_FORMAT_61CHN16")
               [] self = "Mc61ChnF32" -> Lookup(r.val, "AL_EXT_MCFORMATS", "AL_FORMAT_61CHN32")
               [] self = "Mc71ChnU8" -> Lookup(r.val, "AL_EXT_MCFORMATS", "AL_FORMAT_71CHN8")
               [] self = "Mc71ChnI16" -> Lookup(r.val, "AL_EXT_MCFORMATS", "AL_FORMAT_71CHN16")
               [] self = "Mc71ChnF32" -> Lookup(r.val, "AL_EXT_MCFORMATS", "AL_FORMAT_71CHN32")

\* the mu-law formats are looked up in the multichannel family
ExtMuLawFormat_into_raw_McFormats(self, c) ==
    LET r == ok_or(c, AlExtensionNotPresent)
    IN  IF r.tag = "Err" THEN r
        ELSE CASE self = "Mono" -> Lookup(r.val, "AL_EXT_MULAW_MCFORMATS", "AL_FORMAT_MONO_MULAW")
               [] self = "Stereo" -> Lookup(r.val, "AL_EXT_MULAW_MCFORMATS", "AL_FORMAT_STEREO_MULAW")

ExtMuLawFormat_into_raw(self, c) ==
    LET r == ok_or(c, AlExtensionNotPresent)
    IN  IF r.tag = "Err" THEN r
        ELSE CASE self = "Mono" -> Lookup(r.val, "AL_EXT_MULAW", "AL_FORMAT_MONO_MULAW_EXT")
               [] self = "Stereo" -> Lookup(r.val, "AL_EXT_MULAW", "AL_FORMAT_STEREO_MULAW_EXT")

ExtMuLawBFormat_into_raw(self, c) ==
    LET r == ok_or(c, AlExtensionNotPresent)
    IN  IF r.tag = "Err" THEN r
        ELSE CASE self = "B2D" -> Lookup(r.val, "AL_EXT_MULAW_BFORMAT", "AL_FORMAT_BFORMAT2D_MULAW")
               [] self = "B3D" -> Lookup(r.val, "AL_EXT_MULAW_BFORMAT", "AL_FORMAT_BFORMAT3D_MULAW")

ExtMuLawMcFormat_into_raw(self, c) ==
    LET r == ok_or(c, AlExtensionNotPresent)
    IN  IF r.tag = "Err" THEN r
        ELSE CASE self = "Mono" -> Lookup(r.val, "AL_EXT_MULAW_MCFORMATS", "AL_FORMAT_MONO_MULAW")
               [] self = "Stereo" -> Lookup(r.val, "AL_EXT_MULAW_MCFORMATS", "AL_FORMAT_STEREO_MULAW")
               [] self = "Quad" -> Lookup(r.val, "AL_EXT_MULAW_MCFORMATS", "AL_FORMAT_QUAD_MULAW")
               [] self = "Rear" -> Lookup(r.val, "AL_EXT_MULAW_MCFORMATS", "AL_FORMAT_REAR_MULAW")
               [] self = "Mc51Chn" -> Lookup(r.val, "AL_EXT_MULAW_MCFORMATS", "AL_FORMAT_51CHN_MULAW")
               [] self = "Mc61Chn" -> Lookup(r.val, "AL_EXT_MULAW_MCFORMATS", "AL_FORMAT_61CHN_MULAW")
               [] self = "Mc71Chn" -> Lookup(r.val, "AL_EXT_MULAW_MCFORMATS", "AL_FORMAT_71CHN_MULAW")

SoftMsadpcmFormat_into_raw(self, c) ==
    LET r == ok_or(c, AlExtensionNotPresent)
    IN  IF r.tag = "Err" THEN r
        ELSE CASE self = "Mono" -> Lookup(r.val, "AL_SOFT_MSADPCM", "AL_FORMAT_MONO_MSADPCM_SOFT")
               [] self = "Stereo" -> Lookup(r.val, "AL_SOFT_MSADPCM", "AL_FORMAT_STEREO_MSADPCM_SOFT")

Format_into_raw(self, c) ==
    CASE self.family = "Standard" -> Ok(StandardFormat_into_raw(self.fmt))
      [] self.family = "ExtALaw" -> ExtALawFormat_into_raw(self.fmt, c)
      [] self.family = "ExtBFormat" -> ExtBFormat_into_raw(self.fmt, c)
      [] self.family = "ExtDouble" -> ExtDoubleFormat_into_raw(self.fmt, c)
      [] self.family = "ExtFloat32" -> ExtFloat32Format_into_raw(self.fmt, c)
      [] self.family = "ExtIma4" -> ExtIma4Format_into_raw(self.fmt, c)
      [] self.family = "ExtMcFormats" -> ExtMcFormat_into_raw(self.fmt, c)
      [] self.family = "ExtMuLaw" -> ExtMuLawFormat_into_raw(self.fmt, c)
      [] self.family = "ExtMuLawBFormat" -> ExtMuLawBFormat_into_raw(self.fmt, c)
      [] self.family = "ExtMuLawMcFormats" -> ExtMuLawMcFormat_into_raw(self.fmt, c)
      [] self.family = "SoftMsadpcm" -> SoftMsadpcmFormat_into_raw(self.fmt, c)

(***************************************************************************)
(* The caller.                                                             *)
(***************************************************************************)
Idle == [op |-> "idle"]

\* the provider of a session that negotiated no extension
NoExtensions == MkProvider(Extensions, 65536)

Init ==
    /\ ctx \in Providers
    /\ mem = << >>
    /\ call = Idle
    /\ writes = 0

\* format.into_raw(None) or format.into_raw(Some(&ctx))
IntoRaw ==
    /\ call = Idle
    /\ \E f \in Formats, c \in {None, Some(ctx)} :
          call' = [op |-> "into_raw", self |-> f, ctx |-> c,
                   result |-> Format_into_raw(f, c)]
    /\ UNCHANGED <<ctx, mem, writes>>

\* the caller has read the result
Return ==
    /\ call # Idle
    /\ call' = Idle
    /\ UNCHANGED <<ctx, mem, writes>>

Next == IntoRaw \/ Return

Spec == Init /\ [][Next]_vars

(***************************************************************************)
(* The frame structs and the SampleFrame registry.                         *)
(***************************************************************************)
\* the fields of each #[repr(C)] frame struct, in declared order
FrameFields(layout) ==
    CASE layout = "Mono" -> <<"center">>
      [] layout = "Stereo" -> <<"left", "right">>
      [] layout = "McRear" -> <<"rear">>
      [] layout = "McQuad" -> <<"front_left", "front_right", "back_left", "back_right">>
      [] layout = "Mc51Chn" -> <<"front_left", "front_right", "front_center", "low_freq",
                                 "back_left", "back_right">>
      [] layout = "Mc61Chn" -> <<"front_left", "front_right", "front_center", "low_freq",
                                 "back_left", "back_right", "back_center">>
      [] layout = "Mc71Chn" -> <<"front_left", "front_right", "front_center", "low_freq",
                                 "back_left", "back_right", "side_left", "side_right">>
      [] layout = "BFormat2D" -> <<"w", "x", "y">>
      [] layout = "BFormat3D" -> <<"w", "x", "y", "z">>

Layouts ==
    {"Mono", "Stereo", "McRear", "McQuad", "Mc51Chn", "Mc61Chn", "Mc71Chn",
     "BFormat2D", "BFormat3D"}

\* a frame type Layout<Sample>
Frame(layout, sample) == [layout |-> layout, sample |-> sample]

\* unsafe impl SampleFrame for Layout<Sample> { len, format }
Impl(layout, sample, n, family, fmt) ==
    [frame |-> Frame(layout, sample), len |-> n, format |-> Fmt(family, fmt)]

\* the impl for Mc61Chn<MuLawSample> is missing
SampleFrameImpls_Missing ==
    { Impl("Mono", "u8", 1, "Standard", "MonoU8"),
      Impl("Mono", "i16", 1, "Standard", "MonoI16"),
      Impl("Mono", "f32", 1, "ExtFloat32", "Mono"),
      Impl("Mono", "f64", 1, "ExtDouble", "Mono"),
      Impl("Mono", "ALawSample", 1, "ExtALaw", "Mono"),
      Impl("Mono", "MuLawSample", 1, "ExtMuLaw", "Mono"),
      Impl("Stereo", "u8", 2, "Standard", "StereoU8"),
      Impl("Stereo", "i16", 2, "Standard", "StereoI16"),
      Impl("Stereo", "f32", 2, "ExtFloat32", "Stereo"),
      Impl("Stereo", "f64", 2, "ExtDouble", "Stereo"),
      Impl("Stereo", "ALawSample", 2, "ExtALaw", "Stereo"),
      Impl("Stereo", "MuLawSample", 2, "ExtMuLaw", "Stereo"),
      Impl("McRear", "u8", 1, "ExtMcFormats", "RearU8"),
      Impl("McRear", "i16", 1, "ExtMcFormats", "RearI16"),
      Impl("McRear", "f32", 1, "ExtMcFormats", "RearF32"),
      Impl("McRear", "MuLawSample", 1, "ExtMuLawMcFormats", "Rear"),
      Impl("McQuad", "u8", 4, "ExtMcFormats", "QuadU8"),
      Impl("McQuad", "i16", 4, "ExtMcFormats", "QuadI16"),
      Impl("McQuad", "f32", 4, "ExtMcFormats", "QuadF32"),
      Impl("McQuad", "MuLawSample", 4, "ExtMuLawMcFormats", "Quad"),
      Impl("Mc51Chn", "u8", 6, "ExtMcFormats", "Mc51ChnU8"),
      Impl("Mc51Chn", "i16", 6, "ExtMcFormats", "Mc51ChnI16"),
      Impl("Mc51Chn", "f32", 6, "ExtMcFormats", "Mc51ChnF32"),
      Impl("Mc51Chn", "MuLawSample", 6, "ExtMuLawMcFormats", "Mc51Chn"),
      Impl("Mc61Chn", "u8", 7, "ExtMcFormats", "Mc61ChnU8"),
      Impl("Mc61Chn", "i16", 7, "ExtMcFormats", "Mc61ChnI16"),
      Impl("Mc61Chn", "f32", 7, "ExtMcFormats", "Mc61ChnF32"),
      Impl("Mc71Chn", "u8", 8, "ExtMcFormats", "Mc71ChnU8"),
      Impl("Mc71Chn", "i16", 8, "ExtMcFormats", "Mc71ChnI16"),
      Impl("Mc71Chn", "f32", 8, "ExtMcFormats", "Mc71ChnF32"),
      Impl("Mc71Chn", "MuLawSample", 8, "ExtMuLawMcFormats", "Mc71Chn"),
      Impl("BFormat2D", "u8", 3, "ExtBFormat", "B2DU8"),
      Impl("BFormat2D", "i16", 3, "ExtBFormat", "B2DI16"),
      Impl("BFormat2D", "f32", 3, "ExtBFormat", "B2DF32"),
      Impl("BFormat2D", "MuLawSample", 3, "ExtMuLawBFormat", "B2D"),
      Impl("BFormat3D", "u8", 4, "ExtBFormat", "B3DU8"),
      Impl("BFormat3D", "i16", 4, "ExtBFormat", "B3DI16"),
      Impl("BFormat3D", "f32", 4, "ExtBFormat", "B3DF32"),
      Impl("BFormat3D", "MuLawSample", 4, "ExtMuLawBFormat", "B3D") }

SampleFrameImpls ==
    { Impl("Mono", "u8", 1, "Standard", "MonoU8"),
      Impl("Mono", "i16", 1, "Standard", "MonoI16"),
      Impl("Mono", "f32", 1, "ExtFloat32", "Mono"),
      Impl("Mono", "f64", 1, "ExtDouble", "Mono"),
      Impl("Mono", "ALawSample", 1, "ExtALaw", "Mono"),
      Impl("Mono", "MuLawSample", 1, "ExtMuLaw", "Mono"),
      Impl("Stereo", "u8", 2, "Standard", "StereoU8"),
      Impl("Stereo", "i16", 2, "Standard", "StereoI16"),
      Impl("Stereo", "f32", 2, "ExtFloat32", "Stereo"),
      Impl("Stereo", "f64", 2, "ExtDouble", "Stereo"),
      Impl("Stereo", "ALawSample", 2, "ExtALaw", "Stereo"),
      Impl("Stereo", "MuLawSample", 2, "ExtMuLaw", "Stereo"),
      Impl("McRear", "u8", 1, "ExtMcFormats", "RearU8"),
      Impl("McRear", "i16", 1, "ExtMcFormats", "RearI16"),
      Impl("McRear", "f32", 1, "ExtMcFormats", "RearF32"),
      Impl("McRear", "MuLawSample", 1, "ExtMuLawMcFormats", "Rear"),
      Impl("McQuad", "u8", 4, "ExtMcFormats", "QuadU8"),
      Impl("McQuad", "i16", 4, "ExtMcFormats", "QuadI16"),
      Impl("McQuad", "f32", 4, "ExtMcFormats", "QuadF32"),
      Impl("McQuad", "MuLawSample", 4, "ExtMuLawMcFormats", "Quad"),
      Impl("Mc51Chn", "u8", 6, "ExtMcFormats", "Mc51ChnU8"),
      Impl("Mc51Chn", "i16", 6, "ExtMcFormats", "Mc51ChnI16"),
      Impl("Mc51Chn", "f32", 6, "ExtMcFormats", "Mc51ChnF32"),
      Impl("Mc51Chn", "MuLawSample", 6, "ExtMuLawMcFormats", "Mc51Chn"),
      Impl("Mc61Chn", "u8", 7, "ExtMcFormats", "Mc61ChnU8"),
      Impl("Mc61Chn", "i16", 7, "ExtMcFormats", "Mc61ChnI16"),
      Impl("Mc61Chn", "f32", 7, "ExtMcFormats", "Mc61ChnF32"),
      Impl("Mc61Chn", "MuLawSample", 7, "ExtMuLawMcFormats", "Mc61Chn"),
      Impl("Mc71Chn", "u8", 8, "ExtMcFormats", "Mc71ChnU8"),
      Impl("Mc71Chn", "i16", 8, "ExtMcFormats", "Mc71ChnI16"),
      Impl("Mc71Chn", "f32", 8, "ExtMcFormats", "Mc71ChnF32"),
      Impl("Mc71Chn", "MuLawSample", 8, "ExtMuLawMcFormats", "Mc71Chn"),
      Impl("BFormat2D", "u8", 3, "ExtBFormat", "B2DU8"),
      Impl("BFormat2D", "i16", 3, "ExtBFormat", "B2DI16"),
      Impl("BFormat2D", "f32", 3, "ExtBFormat", "B2DF32"),
      Impl("BFormat2D", "MuLawSample", 3, "ExtMuLawBFormat", "B2D"),
      Impl("BFormat3D", "u8", 4, "ExtBFormat", "B3DU8"),
      Impl("BFormat3D", "i16", 4, "ExtBFormat", "B3DI16"),
      Impl("BFormat3D", "f32", 4, "ExtBFormat", "B3DF32"),
      Impl("BFormat3D", "MuLawSample", 4, "ExtMuLawBFormat", "B3D") }

\* the frame types that implement SampleFrame
SampleFrames == {r.frame : r \in SampleFrameImpls}

ImplsOf(F) == {r \in SampleFrameImpls : r.frame = F}

\* Mc61Chn counts six channels
SampleFrame_len_Short(F) ==
    IF F.layout = "Mc61Chn" THEN 6 ELSE (CHOOSE r \in ImplsOf(F) : TRUE).len

\* F::len()
SampleFrame_len(F) == (CHOOSE r \in ImplsOf(F) : TRUE).len

\* Mono<MuLawSample> answers with the mono format of the multichannel family
SampleFrame_format_McMuLaw(F) ==
    IF F = Frame("Mono", "MuLawSample")
    THEN Fmt("ExtMuLawMcFormats", "Mono")
    ELSE (CHOOSE r \in ImplsOf(F) : TRUE).format

\* F::format()
SampleFrame_format(F) == (CHOOSE r \in ImplsOf(F) : TRUE).format

(***************************************************************************)
(* Slices and views.  mem holds the caller's samples; a slice is a start   *)
(* (in samples, from the start of mem) and a length in its own elements.   *)
(* An element of a slice of frames spans as many samples as its struct     *)
(* has fields.                                                             *)
(***************************************************************************)
Slice(p, n) == [ptr |-> p, len |-> n]

\* slice::from_raw_parts(ptr, len), slice::from_raw_parts_mut(ptr, len)
from_raw_parts(p, n) == Slice(p, n)

\* what a read outside the caller's buffer shows
OutOfBounds == -1

ReadSample(m, i) == IF i + 1 \in DOMAIN m THEN m[i + 1] ELSE OutOfBounds

FieldIndex(layout, name) ==
    CHOOSE k \in 1..Len(FrameFields(layout)) : FrameFields(layout)[k] = name

FieldNames(layout) == {FrameFields(layout)[k] : k \in 1..Len(FrameFields(layout))}

\* sizeof(Layout<S>) / sizeof(S)
FrameSize(layout) == Len(FrameFields(layout))

\* element i (from 0) of a slice of frames, read field by field
ReadFrame(m, v, layout, i) ==
    [name \in FieldNames(layout) |->
        ReadSample(m, v.ptr + i * FrameSize(layout) + (FieldIndex(layout, name) - 1))]

\* the elements of a slice of frames
ReadFrames(m, v, layout) == [i \in 1..v.len |-> ReadFrame(m, v, layout, i - 1)]

\* the Mc71Chn impl divides by the length of Mc61Chn
as_buffer_data_samples_Over(F, self) ==
    CASE F.layout = "Mono" ->
             from_raw_parts(self.ptr, self.len \div SampleFrame_len(Frame("Mono", F.sample)))
      [] F.layout = "Stereo" ->
             from_raw_parts(self.ptr, self.len \div SampleFrame_len(Frame("Stereo", F.sample)))
      [] F.layout = "McRear" ->
             from_raw_parts(self.ptr, self.len \div SampleFrame_len(Frame("McRear", F.sample)))
      [] F.layout = "McQuad" ->
             from_raw_parts(self.ptr, self.len \div SampleFrame_len(Frame("McQuad", F.sample)))
      [] F.layout = "Mc51Chn" ->
             from_raw_parts(self.ptr, self.len \div SampleFrame_len(Frame("Mc51Chn", F.sample)))
      [] F.layout = "Mc61Chn" ->
             from_raw_parts(self.ptr, self.len \div SampleFrame_len(Frame("Mc61Chn", F.sample)))
      [] F.layout = "Mc71Chn" ->
             from_raw_parts(self.ptr, self.len \div SampleFrame_len(Frame("Mc61Chn", F.sample)))
      [] F.layout = "BFormat2D" ->
             from_raw_parts(self.ptr, self.len \div SampleFrame_len(Frame("BFormat2D", F.sample)))
      [] F.layout = "BFormat3D" ->
             from_raw_parts(self.ptr, self.len \div SampleFrame_len(Frame("BFormat3D", F.sample)))

\* the Mc51Chn impl divides by the length of Mc61Chn
as_buffer_data_samples_Under(F, self) ==
    CASE F.layout = "Mono" ->
             from_raw_parts(self.ptr, self.len \div SampleFrame_len(Frame("Mono", F.sample)))
      [] F.layout = "Stereo" ->
             from_raw_parts(self.ptr, self.len \div SampleFrame_len(Frame("Stereo", F.sample)))
      [] F.layout = "McRear" ->
             from_raw_parts(self.ptr, self.len \div SampleFrame_len(Frame("McRear", F.sample)))
      [] F.layout = "McQuad" ->
             from_raw_parts(self.ptr, self.len \div SampleFrame_len(Frame("McQuad", F.sample)))
      [] F.layout = "Mc51Chn" ->
             from_raw_parts(self.ptr, self.len \div SampleFrame_len(Frame("Mc61Chn", F.sample)))
      [] F.layout = "Mc61Chn" ->
             from_raw_parts(self.ptr, self.len \div SampleFrame_len(Frame("Mc61Chn", F.sample)))
      [] F.layout = "Mc71Chn" ->
             from_raw_parts(self.ptr, self.len \div SampleFrame_len(Frame("Mc71Chn", F.sample)))
      [] F.layout = "BFormat2D" ->
             from_raw_parts(self.ptr, self.len \div SampleFrame_len(Frame("BFormat2D", F.sample)))
      [] F.layout = "BFormat3D" ->
             from_raw_parts(self.ptr, self.len \div SampleFrame_len(Frame("BFormat3D", F.sample)))

\* impl AsBufferData<Layout<S>> for [S]
as_buffer_data_samples(F, self) ==
    CASE F.layout = "Mono" ->
             from_raw_parts(self.ptr, self.len \div SampleFrame_len(Frame("Mono", F.sample)))
      [] F.layout = "Stereo" ->
             from_raw_parts(self.ptr, self.len \div SampleFrame_len(Frame("Stereo", F.sample)))
      [] F.layout = "McRear" ->
             from_raw_parts(self.ptr, self.len \div SampleFrame_len(Frame("McRear", F.sample)))
      [] F.layout = "McQuad" ->
             from_raw_parts(self.ptr, self.len \div SampleFrame_len(Frame("McQuad", F.sample)))
      [] F.layout = "Mc51Chn" ->
             from_raw_parts(self.ptr, self.len \div SampleFrame_len(Frame("Mc51Chn", F.sample)))
      [] F.layout = "Mc61Chn" ->
             from_raw_parts(self.ptr, self.len \div SampleFrame_len(Frame("Mc61Chn", F.sample)))
      [] F.layout = "Mc71Chn" ->
             from_raw_parts(self.ptr, self.len \div SampleFrame_len(Frame("Mc71Chn", F.sample)))
      [] F.layout = "BFormat2D" ->
             from_raw_parts(self.ptr, self.len \div SampleFrame_len(Frame("BFormat2D", F.sample)))
      [] F.layout = "BFormat3D" ->
             from_raw_parts(self.ptr, self.len \div SampleFrame_len(Frame("BFormat3D", F.sample)))

\* a slice of frames is reinterpreted like a slice of samples
as_buffer_data_frames_Divided(F, self) ==
    from_raw_parts(self.ptr, self.len \div SampleFrame_len(F))

\* impl AsBufferData<Layout<S>> for [Layout<S>]
as_buffer_data_frames(F, self) == self

\* every impl divides by the length of Mono
as_buffer_data_mut_samples_Mono(F, self) ==
    from_raw_parts(self.ptr, self.len \div SampleFrame_len(Frame("Mono", F.sample)))

\* impl AsBufferDataMut<Layout<S>> for [S]
as_buffer_data_mut_samples(F, self) ==
    CASE F.layout = "Mono" ->
             from_raw_parts(self.ptr, self.len \div SampleFrame_len(Frame("Mono", F.sample)))
      [] F.layout = "Stereo" ->
             from_raw_parts(self.ptr, self.len \div SampleFrame_len(Frame("Stereo", F.sample)))
      [] F.layout = "McRear" ->
             from_raw_parts(self.ptr, self.len \div SampleFrame_len(Frame("McRear", F.sample)))
      [] F.layout = "McQuad" ->
             from_raw_parts(self.ptr, self.len \div SampleFrame_len(Frame("McQuad", F.sample)))
      [] F.layout = "Mc51Chn" ->
             from_raw_parts(self.ptr, self.len \div SampleFrame_len(Frame("Mc51Chn", F.sample)))
      [] F.layout = "Mc61Chn" ->
             from_raw_parts(self.ptr, self.len \div SampleFrame_len(Frame("Mc61Chn", F.sample)))
      [] F.layout = "Mc71Chn" ->
             from_raw_parts(self.ptr, self.len \div SampleFrame_len(Frame("Mc71Chn", F.sample)))
      [] F.layout = "BFormat2D" ->
             from_raw_parts(self.ptr, self.len \div SampleFrame_len(Frame("BFormat2D", F.sample)))
      [] F.layout = "BFormat3D" ->
             from_raw_parts(self.ptr, self.len \div SampleFrame_len(Frame("BFormat3D", F.sample)))

\* impl AsBufferDataMut<Layout<S>> for [Layout<S>]
as_buffer_data_mut_frames(F, self) == self

(***************************************************************************)
(* The caller of the registry and of the views.                            *)
(***************************************************************************)
\* the caller's sample buffers: every sample differs from its neighbours
Buffers ==
    {[i \in 1..n |-> (s + 7 * i) % 256] : n \in 0..MaxLen, s \in {0, 100}}

\* the slices of samples the caller takes of its buffer: &mem[a..]
SampleSlices == {Slice(a, Len(mem) - a) : a \in {x \in 0..MaxStart : x <= Len(mem)}}

\* the slices of frames of a layout the caller holds over its buffer
FrameSlices(layout) ==
    {v \in [ptr : 0..MaxStart, len : 0..MaxLen] :
        v.ptr + v.len * FrameSize(layout) <= Len(mem)}

InitFrames ==
    /\ ctx = NoExtensions
    /\ mem \in Buffers
    /\ call = Idle
    /\ writes = 0

\* F::len()
FrameLen ==
    /\ call = Idle
    /\ \E F \in SampleFrames :
          call' = [op |-> "len", F |-> F, result |-> SampleFrame_len(F)]
    /\ UNCHANGED <<ctx, mem, writes>>

\* F::format(), also called again right after a call of it
FrameFormat ==
    /\ call.op \in {"idle", "format"}
    /\ \E F \in SampleFrames :
          call' = [op |-> "format", F |-> F, impls |-> Cardinality(ImplsOf(F)),
                   result |-> SampleFrame_format(F)]
    /\ UNCHANGED <<ctx, mem, writes>>

ViewCall(op, from, F, self, v) ==
    [op |-> op, from |-> from, F |-> F, self |-> self, result |-> v,
     frames |-> ReadFrames(mem, v, F.layout)]

\* samples.as_buffer_data() as frames of F
AsBufferDataSamples ==
    /\ call = Idle
    /\ \E F \in SampleFrames, self \in SampleSlices :
          call' = ViewCall("as_buffer_data", "samples", F, self,
                           as_buffer_data_samples(F, self))
    /\ UNCHANGED <<ctx, mem, writes>>

\* frames.as_buffer_data() of a slice that already holds frames of F
AsBufferDataFrames ==
    /\ call = Idle
    /\ \E F \in SampleFrames :
          \E self \in FrameSlices(F.layout) :
             call' = ViewCall("as_buffer_data", "frames", F, self,
                              as_buffer_data_frames(F, self))
    /\ UNCHANGED <<ctx, mem, writes>>

\* samples.as_buffer_data_mut() as frames of F
AsBufferDataMutSamples ==
    /\ call = Idle
    /\ \E F \in SampleFrames, self \in SampleSlices :
          call' = ViewCall("as_buffer_data_mut", "samples", F, self,
                           as_buffer_data_mut_samples(F, self))
    /\ UNCHANGED <<ctx, mem, writes>>

\* frames.as_buffer_data_mut() of a slice that already holds frames of F
AsBufferDataMutFrames ==
    /\ call = Idle
    /\ \E F \in SampleFrames :
          \E self \in FrameSlices(F.layout) :
             call' = ViewCall("as_buffer_data_mut", "frames", F, self,
                              as_buffer_data_mut_frames(F, self))
    /\ UNCHANGED <<ctx, mem, writes>>

NextFrames ==
    \/ FrameLen
    \/ FrameFormat
    \/ AsBufferDataSamples
    \/ AsBufferDataFrames
    \/ AsBufferDataMutSamples
    \/ AsBufferDataMutFrames
    \/ Return

SpecFrames == InitFrames /\ [][NextFrames]_vars

(***************************************************************************)
(* Views through containers.  A value that implements AsBufferData is a    *)
(* slice of samples, a slice of frames, or a container (a reference, a     *)
(* Box, a Vec) that dereferences to such a value.                          *)
(***************************************************************************)
Samples(v) == [tag |-> "Samples", slice |-> v]

Frames(v) == [tag |-> "Frames", slice |-> v]

\* a container whose Deref::Target is x
Container(x) == [tag |-> "Deref", target |-> x]

\* **self
Deref(self) == self.target

RECURSIVE Wrapped(_, _)
\* x inside d containers
Wrapped(x, d) == IF d = 0 THEN x ELSE Container(Wrapped(x, d - 1))

RECURSIVE Contents(_)
\* the slice at the bottom of a nest of containers
Contents(self) == IF self.tag = "Deref" THEN Contents(Deref(self)) ELSE self

RECURSIVE as_buffer_data(_, _)
RECURSIVE as_buffer_data_mut(_, _)

\* the contents are reinterpreted as samples whatever their element type
as_buffer_data_deref_AsSamples(F, self) ==
    as_buffer_data_samples(F, Contents(self).slice)

\* impl<F, T> AsBufferData<F> for T where T: Deref
as_buffer_data_deref(F, self) == as_buffer_data(F, Deref(self))

\* impl<F, T> AsBufferDataMut<F> for T where T: DerefMut
as_buffer_data_mut_deref(F, self) == as_buffer_data_mut(F, Deref(self))

\* self.as_buffer_data(), by the impl of self's type
as_buffer_data(F, self) ==
    CASE self.tag = "Samples" -> as_buffer_data_samples(F, self.slice)
      [] self.tag = "Frames" -> as_buffer_data_frames(F, self.slice)
      [] self.tag = "Deref" -> as_buffer_data_deref(F, self)

\* self.as_buffer_data_mut(), by the impl of self's type
as_buffer_data_mut(F, self) ==
    CASE self.tag = "Samples" -> as_buffer_data_mut_samples(F, self.slice)
      [] self.tag = "Frames" -> as_buffer_data_mut_frames(F, self.slice)
      [] self.tag = "Deref" -> as_buffer_data_mut_deref(F, self)

\* the slices of samples or of frames of F's layout the caller's containers hold
Slices(F) ==
    {Samples(v) : v \in SampleSlices} \cup {Frames(v) : v \in FrameSlices(F.layout)}

\* container.as_buffer_data() as frames of F
AsBufferDataDeref ==
    /\ call = Idle
    /\ \E F \in SampleFrames, d \in 1..MaxDepth :
          \E x \in Slices(F) :
             call' = ViewCall("as_buffer_data", "deref", F, Wrapped(x, d),
                              as_buffer_data(F, Wrapped(x, d)))
    /\ UNCHANGED <<ctx, mem, writes>>

\* container.as_buffer_data_mut() as frames of F
AsBufferDataMutDeref ==
    /\ call = Idle
    /\ \E F \in SampleFrames, d \in 1..MaxDepth :
          \E x \in Slices(F) :
             call' = ViewCall("as_buffer_data_mut", "deref", F, Wrapped(x, d),
                              as_buffer_data_mut(F, Wrapped(x, d)))
    /\ UNCHANGED <<ctx, mem, writes>>

NextDeref == AsBufferDataDeref \/ AsBufferDataMutDeref \/ Return

SpecDeref == InitFrames /\ [][NextDeref]_vars

(***************************************************************************)
(* Loopback.  The loopback capability object holds, for each token of      *)
(* ALC_SOFT_loopback, the value the device advertises or the failure of    *)
(* its lookup; a LoopbackFrame names the field of its channel              *)
(* configuration and the field of its sample type.                         *)
(***************************************************************************)
LoopbackTokenOrder ==
    <<"ALC_MONO_SOFT", "ALC_STEREO_SOFT", "ALC_QUAD_SOFT", "ALC_5POINT1_SOFT",
      "ALC_6POINT1_SOFT", "ALC_7POINT1_SOFT", "ALC_UNSIGNED_BYTE_SOFT",
      "ALC_SHORT_SOFT", "ALC_FLOAT_SOFT">>

LoopbackTokens == {LoopbackTokenOrder[i] : i \in DOMAIN LoopbackTokenOrder}

LoopbackTokenIndex(t) ==
    CHOOSE i \in DOMAIN LoopbackTokenOrder : LoopbackTokenOrder[i] = t

\* an ext::ALC_SOFT_loopback that advertises every token but those in absent
MkLoopback(absent) ==
    [t \in LoopbackTokens |->
        IF t \in absent THEN Err(ExtensionError) ELSE Ok(LoopbackTokenIndex(t))]

LoopbackObjects == {MkLoopback(absent) : absent \in SUBSET LoopbackTokens}

\* Ok(sl.TOKEN?)
LoopbackLookup(sl, t) ==
    IF sl[t].tag = "Err" THEN Err(From_ExtensionError(sl[t].err)) ELSE Ok(sl[t].val)

LoopbackImpl(layout, sample, c, t) ==
    [frame |-> Frame(layout, sample), channels |-> c, sample_ty |-> t]

LoopbackFrameImpls ==
    { LoopbackImpl("Mono", "u8", "ALC_MONO_SOFT", "ALC_UNSIGNED_BYTE_SOFT"),
      LoopbackImpl("Mono", "i16", "ALC_MONO_SOFT", "ALC_SHORT_SOFT"),
      LoopbackImpl("Mono", "f32", "ALC_MONO_SOFT", "ALC_FLOAT_SOFT"),
      LoopbackImpl("Stereo", "u8", "ALC_STEREO_SOFT", "ALC_UNSIGNED_BYTE_SOFT"),
      LoopbackImpl("Stereo", "i16", "ALC_STEREO_SOFT", "ALC_SHORT_SOFT"),
      LoopbackImpl("Stereo", "f32", "ALC_STEREO_SOFT", "ALC_FLOAT_SOFT"),
      LoopbackImpl("McQuad", "u8", "ALC_QUAD_SOFT", "ALC_UNSIGNED_BYTE_SOFT"),
      LoopbackImpl("McQuad", "i16", "ALC_QUAD_SOFT", "ALC_SHORT_SOFT"),
      LoopbackImpl("McQuad", "f32", "ALC_QUAD_SOFT", "ALC_FLOAT_SOFT"),
      LoopbackImpl("Mc51Chn", "u8", "ALC_5POINT1_SOFT", "ALC_UNSIGNED_BYTE_SOFT"),
      LoopbackImpl("Mc51Chn", "i16", "ALC_5POINT1_SOFT", "ALC_SHORT_SOFT"),
      LoopbackImpl("Mc51Chn", "f32", "ALC_5POINT1_SOFT", "ALC_FLOAT_SOFT"),
      LoopbackImpl("Mc61Chn", "u8", "ALC_6POINT1_SOFT", "ALC_UNSIGNED_BYTE_SOFT"),
      LoopbackImpl("Mc61Chn", "i16", "ALC_6POINT1_SOFT", "ALC_SHORT_SOFT"),
      LoopbackImpl("Mc61Chn", "f32", "ALC_6POINT1_SOFT", "ALC_FLOAT_SOFT"),
      LoopbackImpl("Mc71Chn", "u8", "ALC_7POINT1_SOFT", "ALC_UNSIGNED_BYTE_SOFT"),
      LoopbackImpl("Mc71Chn", "i16", "ALC_7POINT1_SOFT", "ALC_SHORT_SOFT"),
      LoopbackImpl("Mc71Chn", "f32", "ALC_7POINT1_SOFT", "ALC_FLOAT_SOFT") }

LoopbackFrames == {r.frame : r \in LoopbackFrameImpls}

LoopbackImplOf(F) == CHOOSE r \in LoopbackFrameImpls : r.frame = F

\* the 6.1 impls read the 5.1 field
LoopbackFrame_channels_OtherLayout(F, sl) ==
    LoopbackLookup(sl, IF F.layout = "Mc61Chn" THEN "ALC_5POINT1_SOFT"
                                                ELSE LoopbackImplOf(F).channels)

\* <F as LoopbackFrame>::channels(sl)
LoopbackFrame_channels(F, sl) == LoopbackLookup(sl, LoopbackImplOf(F).channels)

\* Mc71Chn<i16> reads the float field
LoopbackFrame_sample_ty_OtherSample(F, sl) ==
    LoopbackLookup(sl, IF F = Frame("Mc71Chn", "i16") THEN "ALC_FLOAT_SOFT"
                                                      ELSE LoopbackImplOf(F).sample_ty)

\* <F as LoopbackFrame>::sample_ty(sl)
LoopbackFrame_sample_ty(F, sl) == LoopbackLookup(sl, LoopbackImplOf(F).sample_ty)

\* the channel token, then the sample type token; the first failure is returned
resolve_loopback(F, sl) ==
    LET c == LoopbackFrame_channels(F, sl)
        t == LoopbackFrame_sample_ty(F, sl)
    IN  IF c.tag = "Err" THEN c
        ELSE IF t.tag = "Err" THEN t
        ELSE Ok(<<c.val, t.val>>)

InitLoopback ==
    /\ ctx = NoExtensions
    /\ mem = << >>
    /\ call = Idle
    /\ writes = 0

LoopbackCall(op, F, sl, r) == [op |-> op, F |-> F, sl |-> sl, result |-> r]

\* F::channels(sl)
LoopbackChannels ==
    /\ call = Idle
    /\ \E F \in LoopbackFrames, sl \in LoopbackObjects :
          call' = LoopbackCall("channels", F, sl, LoopbackFrame_channels(F, sl))
    /\ UNCHANGED <<ctx, mem, writes>>

\* F::sample_ty(sl)
LoopbackSampleTy ==
    /\ call = Idle
    /\ \E F \in LoopbackFrames, sl \in LoopbackObjects :
          call' = LoopbackCall("sample_ty", F, sl, LoopbackFrame_sample_ty(F, sl))
    /\ UNCHANGED <<ctx, mem, writes>>

\* resolve_loopback(F, sl)
ResolveLoopback ==
    /\ call = Idle
    /\ \E F \in LoopbackFrames, sl \in LoopbackObjects :
          call' = LoopbackCall("resolve_loopback", F, sl, resolve_loopback(F, sl))
    /\ UNCHANGED <<ctx, mem, writes>>

NextLoopback == LoopbackChannels \/ LoopbackSampleTy \/ ResolveLoopback \/ Return

SpecLoopback == InitLoopback /\ [][NextLoopback]_vars

(***************************************************************************)
(* A session: one provider, resolutions made one after another without     *)
(* the caller going idle in between.                                       *)
(***************************************************************************)
\* what the providers of a session lack: nothing, one extension, every
\* extension but one, every extension, or one token of the float32 or of the
\* mu-law extension
SessionAbsentSets ==
    {{}, Extensions}
    \cup {{e} : e \in Extensions}
    \cup {Extensions \ {e} : e \in Extensions}
    \cup {{t} : t \in ExtensionTokens("AL_EXT_float32") \cup ExtensionTokens("AL_EXT_MULAW")}

\* the lowest of the bases providers number their tokens from
FirstBase == CHOOSE b \in TokenBases : \A x \in TokenBases : b <= x

SessionProviders ==
    {MkProvider(a, FirstBase) : a \in SessionAbsentSets}
    \cup {MkProvider({}, b) : b \in TokenBases}

InitSession ==
    /\ ctx \in SessionProviders
    /\ mem = << >>
    /\ call = Idle
    /\ writes = 0

\* format.into_raw(...) right after another resolution
IntoRawAgain ==
    /\ call.op = "into_raw"
    /\ \E f \in Formats, c \in {None, Some(ctx)} :
          call' = [op |-> "into_raw", self |-> f, ctx |-> c,
                   result |-> Format_into_raw(f, c),
                   repeats |-> (f = call.self /\ c = call.ctx)]
    /\ UNCHANGED <<ctx, mem, writes>>

\* Mono<f32> is marked too
StandardFrames_WithFloat ==
    {Frame("Mono", "u8"), Frame("Mono", "i16"), Frame("Mono", "f32"),
     Frame("Stereo", "u8"), Frame("Stereo", "i16")}

\* unsafe impl StandardFrame for ...
StandardFrames ==
    {Frame("Mono", "u8"), Frame("Mono", "i16"),
     Frame("Stereo", "u8"), Frame("Stereo", "i16")}

\* F::format().into_raw(None) or F::format().into_raw(Some(&ctx))
FrameIntoRaw ==
    /\ call = Idle
    /\ \E F \in SampleFrames, c \in {None, Some(ctx)} :
          call' = [op |-> "frame_into_raw", F |-> F,
                   standard |-> (F \in StandardFrames),
                   self |-> SampleFrame_format(F), ctx |-> c,
                   result |-> Format_into_raw(SampleFrame_format(F), c)]
    /\ UNCHANGED <<ctx, mem, writes>>

\* format.into_raw(Some(&ctx)) and format.into_raw(Some(&other)), the
\* provider of another session
IntoRawPair ==
    /\ call = Idle
    /\ \E f \in Formats, other \in SessionProviders :
          call' = [op |-> "into_raw_pair", self |-> f,
                   ctx |-> Some(ctx), other |-> Some(other),
                   result |-> Format_into_raw(f, Some(ctx)),
                   result_other |-> Format_into_raw(f, Some(other))]
    /\ UNCHANGED <<ctx, mem, writes>>

NextSession == IntoRaw \/ IntoRawAgain \/ FrameIntoRaw \/ IntoRawPair \/ Return

SpecSession == InitSession /\ [][NextSession]_vars

(***************************************************************************)
(* Writes through a mutable view.  The view borrows the caller's samples:  *)
(* a store to field j of frame i of the view is a store to the sample the  *)
(* field occupies in mem.                                                  *)
(***************************************************************************)
\* the u8 values the caller stores
WriteValues == {255}

\* m with sample i (from 0) replaced by w
WriteSample(m, i, w) ==
    IF i >= 0 /\ i < Len(m) THEN [m EXCEPT ![i + 1] = w] ELSE m

\* view[i].name = w
WriteField(m, v, layout, i, name, w) ==
    WriteSample(m, v.ptr + i * FrameSize(layout) + FieldIndex(layout, name) - 1, w)

\* samples.as_buffer_data_mut() by a caller that has writes left to make
BorrowMutSamples ==
    /\ writes < MaxWrites
    /\ AsBufferDataMutSamples

\* view[i].name = w, a u8, through the view the call returned
WriteFrame ==
    /\ call.op = "as_buffer_data_mut"
    /\ call.from = "samples"
    /\ call.F.sample = "u8"
    /\ writes < MaxWrites
    /\ \E i \in 0..(call.result.len - 1), w \in WriteValues :
          \E name \in FieldNames(call.F.layout) :
             /\ mem' = WriteField(mem, call.result, call.F.layout, i, name, w)
             /\ call' = [op |-> "write", F |-> call.F, self |-> call.self,
                         view |-> call.result, i |-> i, name |-> name,
                         value |-> w, before |-> mem]
    /\ writes' = writes + 1
    /\ UNCHANGED ctx

NextWrite == BorrowMutSamples \/ WriteFrame \/ Return

SpecWrite == InitFrames /\ [][NextWrite]_vars

(***************************************************************************)
(* Properties of format resolution.                                        *)
(***************************************************************************)
IsIntoRaw == call.op = "into_raw"

IsExtIntoRaw == IsIntoRaw /\ call.self.family # "Standard"

\* the extension struct the catalog names for the resolved format
CallExt == extension(call.ctx.val, CatalogRow(call.self).ext)

\* the token field the catalog names for the resolved format
CallToken == CallExt.val[CatalogRow(call.self).token]

\* C1: resolving a Standard format returns Ok with the fixed token of its
\* value (MonoU8 AL_FORMAT_MONO8, MonoI16 AL_FORMAT_MONO16, StereoU8
\* AL_FORMAT_STEREO8, StereoI16 AL_FORMAT_STEREO16), with no provider and
\* with any provider alike.
C1_StandardAlwaysResolves ==
    (IsIntoRaw /\ call.self.family = "Standard") =>
        call.result =
            Ok(CASE call.self.fmt = "MonoU8" -> AL_FORMAT_MONO8
                 [] call.self.fmt = "MonoI16" -> AL_FORMAT_MONO16
                 [] call.self.fmt = "StereoU8" -> AL_FORMAT_STEREO8
                 [] call.self.fmt = "StereoI16" -> AL_FORMAT_STEREO16)

\* a 16-bit standard format resolved against a provider without any extension
C1_Witness ==
    /\ IsIntoRaw
    /\ call.self = Fmt("Standard", "MonoI16")
    /\ call.ctx.tag = "Some"
    /\ \A e \in Extensions : extension(call.ctx.val, e).tag = "Err"
    /\ call.result.tag = "Ok"

\* C2: every extension format resolved with no provider fails with
\* ExtensionNotPresent and returns no token.
C2_ExtensionNeedsProvider ==
    (IsExtIntoRaw /\ call.ctx = None) =>
        call.result = Err(AlExtensionNotPresent)

\* an IMA4 format resolved with no provider
C2_Witness ==
    /\ IsIntoRaw
    /\ call.self = Fmt("ExtIma4", "Stereo")
    /\ call.ctx = None
    /\ call.result.tag = "Err"

\* C3: with a provider, an extension format whose family is absent, and one
\* whose family is present but whose own token is absent, both fail with the
\* one error kind ExtensionNotPresent.
C3_AbsentFamilyOrToken ==
    (IsExtIntoRaw /\ call.ctx.tag = "Some") =>
        /\ CallExt.tag = "Err" => call.result = Err(AlExtensionNotPresent)
        /\ (CallExt.tag = "Ok" /\ CallToken.tag = "Err") =>
               call.result = Err(AlExtensionNotPresent)

\* the float32 family is present, its Mono token is not
C3_Witness ==
    /\ IsIntoRaw
    /\ call.self = Fmt("ExtFloat32", "Mono")
    /\ call.ctx.tag = "Some"
    /\ CallExt.tag = "Ok"
    /\ CallToken.tag = "Err"
    /\ CallExt.val["AL_FORMAT_STEREO_FLOAT32"].tag = "Ok"
    /\ call.result.tag = "Err"

\* C4: with a provider that has the format's family and advertises the
\* format's own token, resolution returns exactly that token.
C4_AdvertisedToken ==
    (IsExtIntoRaw /\ call.ctx.tag = "Some") =>
        ((CallExt.tag = "Ok" /\ CallToken.tag = "Ok") =>
            call.result = Ok(CallToken.val))

\* float32 Mono resolved while the provider's Stereo token differs
C4_Witness ==
    /\ IsIntoRaw
    /\ call.self = Fmt("ExtFloat32", "Mono")
    /\ call.ctx.tag = "Some"
    /\ CallExt.tag = "Ok"
    /\ CallToken.tag = "Ok"
    /\ CallExt.val["AL_FORMAT_STEREO_FLOAT32"] # CallToken
    /\ call.result = Ok(CallToken.val)

(***************************************************************************)
(* Properties of the frame registry and of the views.                      *)
(***************************************************************************)
IsView(from) ==
    call.op \in {"as_buffer_data", "as_buffer_data_mut"} /\ call.from = from

\* the samples of the slice the view was taken of
SelfSamples == SubSeq(mem, call.self.ptr + 1, call.self.ptr + call.self.len)

\* the frames of the returned view read back as scalars, field by field
Flattened ==
    LET L == SampleFrame_len(call.F)
        fields == FrameFields(call.F.layout)
    IN  [j \in 1..(Len(call.frames) * L) |->
            call.frames[((j - 1) \div L) + 1][fields[((j - 1) % L) + 1]]]

\* C5: a view of a slice of samples accounts for every sample of the slice:
\* its frames are exactly self.len / frame_length(F), with no sample of the
\* input left out (the operation has no failing outcome).
C5_NoSilentTruncation ==
    IsView("samples") =>
        call.result.len * SampleFrame_len(call.F) = call.self.len

\* C6: the frames of a view of n samples cover only samples below n:
\* frames * frame_length(F) <= n, the view starts where the slice starts, and
\* no frame shows a sample from outside the slice.
C6_NoReadPastEnd ==
    IsView("samples") =>
        /\ call.result.len * SampleFrame_len(call.F) <= call.self.len
        /\ call.result.ptr = call.self.ptr
        /\ call.result.ptr + call.result.len * FrameSize(call.F.layout)
              <= call.self.ptr + call.self.len
        /\ \A i \in 1..Len(call.frames) :
              \A name \in FieldNames(call.F.layout) :
                  call.frames[i][name] # OutOfBounds

\* thirteen samples viewed as 5.1 frames: two frames, one sample over
C6_Witness ==
    /\ IsView("samples")
    /\ call.op = "as_buffer_data"
    /\ call.F.layout = "Mc51Chn"
    /\ call.self.len = 13
    /\ call.result.len = 2

\* C7: a slice of N * L samples (L = frame_length(F)) is viewed as exactly N
\* frames, field k of frame i is sample i*L + k-1 of the slice, and the frames
\* read back as scalars in order are the slice.
C7_RoundTrip ==
    (IsView("samples") /\ call.self.len % SampleFrame_len(call.F) = 0) =>
        LET L == SampleFrame_len(call.F)
            fields == FrameFields(call.F.layout)
        IN  /\ call.result.len * L = call.self.len
            /\ Len(call.frames) = call.result.len
            /\ Len(fields) = L
            /\ \A i \in 0..(call.result.len - 1) :
                  \A k \in 1..L :
                      call.frames[i + 1][fields[k]] = SelfSamples[i * L + k]
            /\ Flattened = SelfSamples

\* sixteen samples, starting at the second of the buffer, as two 7.1 frames
C7_Witness ==
    /\ IsView("samples")
    /\ call.op = "as_buffer_data"
    /\ call.F.layout = "Mc71Chn"
    /\ call.self = Slice(1, 16)
    /\ Len(call.frames) = 2
    /\ call.frames[2]["side_right"] = mem[17]

\* C8: F::len() is the channel count of F's layout (Mono 1, Stereo 2,
\* B-Format-2D 3, B-Format-3D 4, Rear 1, Quad 4, 5.1 6, 6.1 7, 7.1 8), whatever
\* the sample encoding, is positive, and is the number of fields of the struct.
C8_FrameLength ==
    call.op = "len" =>
        /\ call.result =
              CASE call.F.layout = "Mono" -> 1
                [] call.F.layout = "Stereo" -> 2
                [] call.F.layout = "BFormat2D" -> 3
                [] call.F.layout = "BFormat3D" -> 4
                [] call.F.layout = "McRear" -> 1
                [] call.F.layout = "McQuad" -> 4
                [] call.F.layout = "Mc51Chn" -> 6
                [] call.F.layout = "Mc61Chn" -> 7
                [] call.F.layout = "Mc71Chn" -> 8
        /\ call.result > 0
        /\ call.result = Len(FrameFields(call.F.layout))
        /\ Cardinality(FieldNames(call.F.layout)) = call.result

\* the length of a mu-law 6.1 frame
C8_Witness ==
    /\ call.op = "len"
    /\ call.F = Frame("Mc61Chn", "MuLawSample")
    /\ call.result = 7

\* the 40 legal shapes
LegalShapes ==
    {Frame(l, e) : l \in {"Mono", "Stereo"},
                   e \in {"u8", "i16", "f32", "f64", "ALawSample", "MuLawSample"}}
    \cup {Frame(l, e) : l \in {"McRear", "McQuad", "Mc51Chn", "Mc61Chn", "Mc71Chn",
                               "BFormat2D", "BFormat3D"},
                        e \in {"u8", "i16", "f32", "MuLawSample"}}

C9_ExactlyOneFormat ==
    /\ SampleFrames = LegalShapes
    /\ Cardinality(LegalShapes) = 40
    /\ call.op = "format" =>
          /\ call.impls = 1
          /\ call.result \in Formats

C9_SameOnRepeat ==
    (call.op = "format" /\ call'.op = "format" /\ call'.F = call.F) =>
        call'.result = call.result

\* C9: the shapes with a format are exactly the 40 legal ones, each has one
\* impl and its format() is a value of the catalog, and a repeated call for
\* the same shape returns the same value.
C9_Totality == []C9_ExactlyOneFormat /\ [][C9_SameOnRepeat]_vars

\* the format of mu-law 3D B-Format frames
C9_Witness ==
    /\ call.op = "format"
    /\ call.F = Frame("BFormat3D", "MuLawSample")
    /\ call.result = Fmt("ExtMuLawBFormat", "B3D")

\* C10: a view of a slice that already holds frames of F is that slice: the
\* same start (the same storage), the same length, the same elements in the
\* same order, through as_buffer_data and as_buffer_data_mut alike.
C10_IdentityPassthrough ==
    IsView("frames") =>
        /\ call.result.ptr = call.self.ptr
        /\ call.result.len = call.self.len
        /\ call.frames = ReadFrames(mem, call.self, call.F.layout)

\* three stereo frames starting at the second sample of the buffer
C10_Witness ==
    /\ IsView("frames")
    /\ call.op = "as_buffer_data"
    /\ call.F.layout = "Stereo"
    /\ call.self = Slice(1, 3)
    /\ call.result = call.self
    /\ call.frames[3]["right"] = mem[7]

(***************************************************************************)
(* Properties of the views through containers.                             *)
(***************************************************************************)
\* the view the impl of the contents' own type gives, called on them directly
DirectView ==
    LET x == Contents(call.self)
    IN  CASE call.op = "as_buffer_data" /\ x.tag = "Samples" ->
                 as_buffer_data_samples(call.F, x.slice)
          [] call.op = "as_buffer_data" /\ x.tag = "Frames" ->
                 as_buffer_data_frames(call.F, x.slice)
          [] call.op = "as_buffer_data_mut" /\ x.tag = "Samples" ->
                 as_buffer_data_mut_samples(call.F, x.slice)
          [] call.op = "as_buffer_data_mut" /\ x.tag = "Frames" ->
                 as_buffer_data_mut_frames(call.F, x.slice)

\* C11: the view taken through a nest of containers, of any depth, is the
\* view the same operation gives on the contents themselves: the same start,
\* the same length, the same frames, read-only and mutable alike.
C11_TransparentPassThrough ==
    IsView("deref") =>
        /\ call.result = DirectView
        /\ call.frames = ReadFrames(mem, DirectView, call.F.layout)

\* two containers around a slice of four stereo frames, viewed mutably
C11_Witness ==
    /\ IsView("deref")
    /\ call.op = "as_buffer_data_mut"
    /\ call.F.layout = "Stereo"
    /\ call.self = Container(Container(Frames(Slice(1, 4))))
    /\ call.result = Slice(1, 4)

(***************************************************************************)
(* Properties of loopback resolution.                                      *)
(***************************************************************************)
IsLoopback(op) == call.op = op

\* the channel token of a layout
ChannelTokenOf(layout) ==
    CASE layout = "Mono" -> "ALC_MONO_SOFT"
      [] layout = "Stereo" -> "ALC_STEREO_SOFT"
      [] layout = "McQuad" -> "ALC_QUAD_SOFT"
      [] layout = "Mc51Chn" -> "ALC_5POINT1_SOFT"
      [] layout = "Mc61Chn" -> "ALC_6POINT1_SOFT"
      [] layout = "Mc71Chn" -> "ALC_7POINT1_SOFT"

\* the sample type token of an encoding
SampleTypeTokenOf(sample) ==
    CASE sample = "u8" -> "ALC_UNSIGNED_BYTE_SOFT"
      [] sample = "i16" -> "ALC_SHORT_SOFT"
      [] sample = "f32" -> "ALC_FLOAT_SOFT"

Advertised(sl, t) == sl[t].tag = "Ok"

CallChannel == ChannelTokenOf(call.F.layout)

CallSampleType == SampleTypeTokenOf(call.F.sample)

\* C12: each of the two lookups fails, with AlExtensionNotPresent, exactly
\* when its own token is not advertised, whatever the other token is; the
\* resolution of the pair succeeds exactly when both tokens are advertised and
\* otherwise fails with AlExtensionNotPresent, in particular when the channel
\* token is missing and the sample type token is advertised.
C12_LoopbackFailFast ==
    /\ IsLoopback("channels") =>
          /\ call.result.tag = "Err" <=> ~Advertised(call.sl, CallChannel)
          /\ call.result.tag = "Err" => call.result = Err(AlExtensionNotPresent)
    /\ IsLoopback("sample_ty") =>
          /\ call.result.tag = "Err" <=> ~Advertised(call.sl, CallSampleType)
          /\ call.result.tag = "Err" => call.result = Err(AlExtensionNotPresent)
    /\ IsLoopback("resolve_loopback") =>
          /\ call.result.tag = "Ok" <=>
                Advertised(call.sl, CallChannel) /\ Advertised(call.sl, CallSampleType)
          /\ call.result.tag # "Ok" => call.result = Err(AlExtensionNotPresent)

\* 6.1 of i16 resolved on an object that lacks only ALC_6POINT1_SOFT
C12_Witness ==
    /\ IsLoopback("resolve_loopback")
    /\ call.F = Frame("Mc61Chn", "i16")
    /\ call.sl = MkLoopback({"ALC_6POINT1_SOFT"})
    /\ Advertised(call.sl, "ALC_SHORT_SOFT")
    /\ call.result = Err(AlExtensionNotPresent)

\* C15: the loopback frames are the 18 shapes of Mono, Stereo, Quad, 5.1,
\* 6.1, 7.1 with u8, i16, f32; an advertised channel token is the one of the
\* layout and an advertised sample type token the one of the encoding, so
\* every shape of the same layout gets the same channel token and every shape
\* of the same encoding the same sample type token.
C15_LoopbackSubset ==
    /\ LoopbackFrames =
          {Frame(l, s) : l \in {"Mono", "Stereo", "McQuad", "Mc51Chn", "Mc61Chn", "Mc71Chn"},
                         s \in {"u8", "i16", "f32"}}
    /\ Cardinality(LoopbackFrames) = 18
    /\ Cardinality(LoopbackFrameImpls) = 18
    /\ LoopbackFrames \subseteq SampleFrames
    /\ IsLoopback("channels") /\ call.result.tag = "Ok" =>
          /\ call.result = Ok(call.sl[CallChannel].val)
          /\ \A G \in LoopbackFrames :
                G.layout = call.F.layout =>
                    LoopbackFrame_channels(G, call.sl) = call.result
    /\ IsLoopback("sample_ty") /\ call.result.tag = "Ok" =>
          /\ call.result = Ok(call.sl[CallSampleType].val)
          /\ \A G \in LoopbackFrames :
                G.sample = call.F.sample =>
                    LoopbackFrame_sample_ty(G, call.sl) = call.result
    /\ IsLoopback("resolve_loopback") /\ call.result.tag = "Ok" =>
          call.result = Ok(<<call.sl[CallChannel].val, call.sl[CallSampleType].val>>)

\* 7.1 of i16 asks for its sample type on an object that advertises everything
C15_Witness ==
    /\ IsLoopback("sample_ty")
    /\ call.F = Frame("Mc71Chn", "i16")
    /\ call.sl = MkLoopback({})
    /\ call.result = Ok(LoopbackTokenIndex("ALC_SHORT_SOFT"))

(***************************************************************************)
(* Properties of sessions.                                                 *)
(***************************************************************************)
\* what the catalog and the provider alone say a resolution returns
ExpectedResolution(f, c) ==
    IF f.family = "Standard"
    THEN Ok(CASE f.fmt = "MonoU8" -> AL_FORMAT_MONO8
              [] f.fmt = "MonoI16" -> AL_FORMAT_MONO16
              [] f.fmt = "StereoU8" -> AL_FORMAT_STEREO8
              [] f.fmt = "StereoI16" -> AL_FORMAT_STEREO16)
    ELSE IF c = None THEN Err(AlExtensionNotPresent)
    ELSE LET x == extension(c.val, CatalogRow(f).ext)
         IN  IF x.tag = "Err" THEN Err(AlExtensionNotPresent)
             ELSE IF x.val[CatalogRow(f).token].tag = "Err"
                  THEN Err(AlExtensionNotPresent)
                  ELSE Ok(x.val[CatalogRow(f).token].val)

\* whatever was resolved before, the result is the one the format and the
\* provider determine
C13_Determined == IsIntoRaw => call.result = ExpectedResolution(call.self, call.ctx)

\* a resolution leaves the provider as it was and repeats the result of the
\* resolution before it when the format and the provider are the same
C13_NoEffect ==
    call'.op = "into_raw" =>
        /\ ctx' = ctx
        /\ (IsIntoRaw /\ call'.self = call.self /\ call'.ctx = call.ctx) =>
              call'.result = call.result

\* C13: Format::into_raw never changes the capability provider, and a format
\* resolved against the same provider returns the same result every time,
\* however many times and in whatever order with resolutions of other formats.
C13_Pure == []C13_Determined /\ [][C13_NoEffect]_vars

\* the float32 mono format resolved a second time in a row, successfully
C13_Witness ==
    /\ IsIntoRaw
    /\ "repeats" \in DOMAIN call
    /\ call.repeats
    /\ call.self = Fmt("ExtFloat32", "Mono")
    /\ call.ctx = Some(ctx)
    /\ call.result.tag = "Ok"

(***************************************************************************)
(* Properties of the writes through mutable views.                         *)
(***************************************************************************)
\* the sample of mem a write through the view of call.self addresses
WrittenSample ==
    call.self.ptr + call.i * SampleFrame_len(call.F)
                  + (FieldIndex(call.F.layout, call.name) - 1)

\* C14: a write to channel j of frame i through the mutable view of a flat
\* buffer stores the value in raw sample i * L + j of the buffer, L the frame
\* length, and changes no other sample, the trailing samples the view does
\* not cover included; the mutable view has the frame count and the contents
\* of the read-only view of the same buffer.
C14_WriteThrough ==
    /\ call.op = "write" =>
          /\ Len(mem) = Len(call.before)
          /\ WrittenSample < call.self.ptr + call.self.len
          /\ ReadSample(mem, WrittenSample) = call.value
          /\ \A n \in 0..(Len(mem) - 1) :
                n # WrittenSample => ReadSample(mem, n) = ReadSample(call.before, n)
          /\ ReadFrame(mem, call.view, call.F.layout, call.i)[call.name] = call.value
    /\ (IsView("samples") /\ call.op = "as_buffer_data_mut") =>
          /\ call.result = as_buffer_data_samples(call.F, call.self)
          /\ call.frames =
                ReadFrames(mem, as_buffer_data_samples(call.F, call.self), call.F.layout)

\* the right field of the second frame of a stereo view of five samples that
\* start at sample 1: sample 4 is written, the trailing sample 5 is not covered
C14_Witness ==
    /\ call.op = "write"
    /\ call.F = Frame("Stereo", "u8")
    /\ call.self = Slice(1, 5)
    /\ call.view = Slice(1, 2)
    /\ call.i = 1
    /\ call.name = "right"
    /\ ReadSample(mem, 4) = call.value
    /\ ReadSample(call.before, 4) # call.value
    /\ ReadSample(mem, 5) = ReadSample(call.before, 5)

(***************************************************************************)
(* Properties of the registry as a map from shapes to formats.             *)
(***************************************************************************)
\* the formats of the catalog no frame answers with
ShapelessFormats ==
    {Fmt("ExtIma4", "Mono"), Fmt("ExtIma4", "Stereo"),
     Fmt("SoftMsadpcm", "Mono"), Fmt("SoftMsadpcm", "Stereo"),
     Fmt("ExtMuLawMcFormats", "Mono"), Fmt("ExtMuLawMcFormats", "Stereo")}

\* C16: no two distinct shapes of the 40 have the same format, so a format
\* is the format of at most one shape; the IMA4 and MS-ADPCM formats and the
\* Mono and Stereo formats of the mu-law multichannel family are the format
\* of no shape.
C16_FormatInjective ==
    call.op = "format" =>
        /\ call.result \notin ShapelessFormats
        /\ \A G \in SampleFrames :
              SampleFrame_format(G) = call.result => G = call.F
        /\ Formats \ {SampleFrame_format(G) : G \in SampleFrames} = ShapelessFormats

\* Mono<MuLawSample> answers with the mono format of AL_EXT_MULAW
C16_Witness ==
    /\ call.op = "format"
    /\ call.F = Frame("Mono", "MuLawSample")
    /\ call.result = Fmt("ExtMuLaw", "Mono")
    /\ Cardinality(SampleFrames) = 40

\* C17: the frames marked StandardFrame are the frames whose format is a
\* Standard variant, Mono<u8>, Mono<i16>, Stereo<u8> and Stereo<i16>; with no
\* provider the format of each of them resolves and the format of each of
\* the other 36 frames fails with AlExtensionNotPresent.
C17_StandardFrames ==
    call.op = "frame_into_raw" =>
        /\ call.standard <=> call.self.family = "Standard"
        /\ call.standard <=>
              call.F \in {Frame(l, s) : l \in {"Mono", "Stereo"}, s \in {"u8", "i16"}}
        /\ Cardinality(SampleFrames \ StandardFrames) = 36
        /\ call.ctx = None =>
              /\ call.standard => call.result.tag = "Ok"
              /\ ~call.standard => call.result = Err(AlExtensionNotPresent)

\* Stereo<i16> resolved with no provider
C17_Witness ==
    /\ call.op = "frame_into_raw"
    /\ call.F = Frame("Stereo", "i16")
    /\ call.standard
    /\ call.ctx = None
    /\ call.result = Ok(AL_FORMAT_STEREO16)

\* two providers say the same of extension e and of its token t
AgreeOn(p, q, e, t) ==
    /\ extension(p, e).tag = extension(q, e).tag
    /\ extension(p, e).tag = "Ok" => extension(p, e).val[t] = extension(q, e).val[t]

\* the provider has extension e and no other
HasOnly(p, e) == \A x \in Extensions : extension(p, x).tag = "Ok" <=> x = e

\* C18: two providers that agree on the presence of the family of an
\* extension format and on the value or absence of its token resolve it to
\* the same result, whatever they say of every other family and token; the
\* float32 mono format fails on a provider that has the double family only,
\* and the format of Mono<MuLawSample> resolves through AL_EXT_MULAW.
C18_OwnFamilyAndToken ==
    (call.op = "into_raw_pair" /\ call.self.family # "Standard") =>
        /\ AgreeOn(call.ctx.val, call.other.val,
                   CatalogRow(call.self).ext, CatalogRow(call.self).token) =>
              call.result = call.result_other
        /\ (call.self = Fmt("ExtFloat32", "Mono") /\ HasOnly(call.ctx.val, "AL_EXT_double")) =>
              call.result = Err(AlExtensionNotPresent)
        /\ call.self = SampleFrame_format(Frame("Mono", "MuLawSample")) =>
              /\ CatalogRow(call.self).ext = "AL_EXT_MULAW"
              /\ HasOnly(call.ctx.val, "AL_EXT_MULAW") => call.result.tag = "Ok"
              /\ HasOnly(call.ctx.val, "AL_EXT_MULAW_MCFORMATS") =>
                    call.result = Err(AlExtensionNotPresent)

\* the format of Mono<MuLawSample> on a provider that has AL_EXT_MULAW only
\* and on one that lacks AL_EXT_MULAW_MCFORMATS only
C18_Witness ==
    /\ call.op = "into_raw_pair"
    /\ call.self = Fmt("ExtMuLaw", "Mono")
    /\ HasOnly(call.ctx.val, "AL_EXT_MULAW")
    /\ call.other = Some(MkProvider({"AL_EXT_MULAW_MCFORMATS"}, FirstBase))
    /\ call.result.tag = "Ok"
    /\ call.result = call.result_other

=============================================================================
